---- MODULE Spec2Model ----
(***************************************************************************)
(* A model of the AI-response parser of CodeAnalyzerBackend                *)
(* (src/ai_agent.py, parse_ai_response), of the report builder that        *)
(* consumes it (src/main.py, analyze_github_repo) and of the /analyze      *)
(* handler that stores and returns the report (analyze_repository).        *)
(*                                                                         *)
(* Text is a sequence of one-character strings.  The regular expressions   *)
(* of the source are data (sequences of items) and are run by a            *)
(* backtracking matcher that tries alternatives in the order Python's re   *)
(* module tries them, so that leftmost match, greedy and lazy repetition,  *)
(* lookahead and capture group 1 come out as they do in the program.       *)
(***************************************************************************)
EXTENDS Integers, Sequences, FiniteSets, TLC

VARIABLES
    family,      \* the family of chunks the content is drawn from
    ai_content,  \* the message content of the gateway's reply
    chunks,      \* how many chunks it holds
    pc,          \* "build", "parsed" (parse_ai_response returned), "reported"
    result,      \* what parse_ai_response returned
    call,        \* the repository and gateway behaviour analyze_github_repo met
    report,      \* what analyze_github_repo returned
    clock,        \* time.time() in whole seconds
    configured,   \* SUPABASE_URL and SUPABASE_KEY are both set
    requests,     \* the /analyze requests: each one's place in the handler and its locals
    repositories, \* the rows of the repositories table
    analyses      \* the POSTs sent to the analyses table

parser_vars == <<family, ai_content, chunks, pc, result, call, report>>
handler_vars == <<clock, configured, requests, repositories, analyses>>
vars == <<family, ai_content, chunks, pc, result, call, report,
          clock, configured, requests, repositories, analyses>>

-----------------------------------------------------------------------------
(* Characters *)

NL == "\n"

Digits == {"0", "1", "2", "3", "4", "5", "6", "7", "8", "9"}

Whitespace == {" ", NL}

Terminators == {".", "!", "?"}

\* U+2022, the bullet glyph, is one character of the text
Bullet == "U+2022"

BulletGlyphs == {Bullet, "-", "*"}

UpperLetters == <<"A", "B", "C", "D", "E", "F", "G", "H", "I", "J", "K", "L", "M",
                  "N", "O", "P", "Q", "R", "S", "T", "U", "V", "W", "X", "Y", "Z">>

LowerLetters == <<"a", "b", "c", "d", "e", "f", "g", "h", "i", "j", "k", "l", "m",
                  "n", "o", "p", "q", "r", "s", "t", "u", "v", "w", "x", "y", "z">>

\* str.lower() of one character
Lower(c) ==
    IF \E k \in 1..26 : UpperLetters[k] = c
    THEN LowerLetters[CHOOSE k \in 1..26 : UpperLetters[k] = c]
    ELSE c

\* the text as re.IGNORECASE compares it: every character folded to lower case
Fold(s) == [k \in 1..Len(s) |-> Lower(s[k])]

DigitValue(c) ==
    CASE c = "0" -> 0 [] c = "1" -> 1 [] c = "2" -> 2 [] c = "3" -> 3 [] c = "4" -> 4
      [] c = "5" -> 5 [] c = "6" -> 6 [] c = "7" -> 7 [] c = "8" -> 8 [] c = "9" -> 9

\* int(s) of a run of decimal digits
RECURSIVE ToInt(_)
ToInt(s) ==
    IF s = <<>> THEN 0
    ELSE 10 * ToInt(SubSeq(s, 1, Len(s) - 1)) + DigitValue(s[Len(s)])

\* str.strip(): whitespace removed from both ends
RECURSIVE LStrip(_)
LStrip(s) ==
    IF s # <<>> /\ Head(s) \in Whitespace THEN LStrip(Tail(s)) ELSE s

RECURSIVE RStrip(_)
RStrip(s) ==
    IF s # <<>> /\ s[Len(s)] \in Whitespace THEN RStrip(SubSeq(s, 1, Len(s) - 1)) ELSE s

Strip(s) == RStrip(LStrip(s))

\* " ".join(parts)
RECURSIVE JoinSpace(_)
JoinSpace(parts) ==
    IF parts = <<>> THEN <<>>
    ELSE IF Len(parts) = 1 THEN parts[1]
    ELSE parts[1] \o <<" ">> \o JoinSpace(Tail(parts))

-----------------------------------------------------------------------------
(* Regular expressions: a pattern is a sequence of items *)

Unbounded == 0 - 1

\* one character of the set cs (neg: one character not in cs)
OneOf(cs) == [t |-> "set", neg |-> FALSE, cs |-> cs]
NoneOf(cs) == [t |-> "set", neg |-> TRUE, cs |-> cs]
\* "." under re.DOTALL
AnyChar == NoneOf({})
\* (?:sub){min,max}, greedy, over a sequence of items sub
Rep(sub, min, max) == [t |-> "rep", sub |-> sub, min |-> min, max |-> max]
\* c{min,max} over a one-character item c, greedy or lazy; max = Unbounded
\* for * and +
Run(c, min, max, greedy) == [t |-> "run", c |-> c, min |-> min, max |-> max, greedy |-> greedy]
Star(c) == Run(c, 0, Unbounded, TRUE)
Plus(c) == Run(c, 1, Unbounded, TRUE)
Opt(c) == Run(c, 0, 1, TRUE)
\* the parentheses of capture group 1
GroupOpen == [t |-> "open"]
GroupClose == [t |-> "close"]
\* (?=a|b|...) over alternatives alts
LookAhead(alts) == [t |-> "look", alts |-> alts]
\* \Z
EndOfString == [t |-> "eos"]
\* a literal string
Lit(s) == [k \in 1..Len(s) |-> OneOf({s[k]})]

NoMatch == [ok |-> FALSE, end |-> 0, gs |-> 0, ge |-> 0]

\* the element of a one-element set: The({e(x) : x \in {v}}) is e with x bound
\* to the value of v, which is then computed once however often e reads it
The(S) == CHOOSE x \in S : TRUE

Accepts(item, c) == IF item.neg THEN c \notin item.cs ELSE c \in item.cs

Dec(n) == IF n > 0 THEN n - 1 ELSE n

\* how many characters from position i on the one-character item c accepts in
\* a row, at most max of them
RunLength(c, s, i, max) ==
    LET limit == IF max = Unbounded \/ i + max > Len(s) + 1 THEN Len(s) + 1 - i ELSE max
        stops == {k \in 0..limit : k = limit \/ ~Accepts(c, s[i + k])}
    IN  CHOOSE k \in stops : \A j \in stops : k <= j

\* The match of items at position i of s that Python's backtracking finds first.
\* gs, ge: the span of group 1 (s[gs..ge-1]).
RECURSIVE MatchAt(_, _, _, _, _)

\* a run of k characters, then rest: a greedy run gives characters back one at
\* a time down to min, a lazy run takes one more at a time up to most
RECURSIVE RunThen(_, _, _, _, _, _, _, _)
RunThen(it, most, k, rest, s, i, gs, ge) ==
    The({IF m.ok THEN m
         ELSE IF it.greedy /\ k > it.min THEN RunThen(it, most, k - 1, rest, s, i, gs, ge)
         ELSE IF ~it.greedy /\ k < most THEN RunThen(it, most, k + 1, rest, s, i, gs, ge)
         ELSE NoMatch :
         m \in {MatchAt(rest, s, i + k, gs, ge)}})

MatchAt(items, s, i, gs, ge) ==
    IF items = <<>> THEN [ok |-> TRUE, end |-> i, gs |-> gs, ge |-> ge]
    ELSE
    LET it == Head(items)
        rest == Tail(items)
    IN  CASE it.t = "set" ->
                IF i <= Len(s) /\ Accepts(it, s[i])
                THEN MatchAt(rest, s, i + 1, gs, ge)
                ELSE NoMatch
          [] it.t = "run" ->
                The({IF most < it.min THEN NoMatch
                     ELSE RunThen(it, most, IF it.greedy THEN most ELSE it.min, rest, s, i, gs, ge) :
                     most \in {RunLength(it.c, s, i, it.max)}})
          [] it.t = "rep" ->
                LET again == <<[it EXCEPT !.min = Dec(it.min), !.max = Dec(it.max)]>>
                    more == MatchAt(it.sub \o again \o rest, s, i, gs, ge)
                    skip == MatchAt(rest, s, i, gs, ge)
                IN  IF it.max = 0 THEN skip
                    ELSE IF it.min > 0 THEN more
                    ELSE The({IF m.ok THEN m ELSE skip : m \in {more}})
          [] it.t = "open" -> MatchAt(rest, s, i, i, ge)
          [] it.t = "close" -> MatchAt(rest, s, i, gs, i)
          [] it.t = "look" ->
                IF \E a \in 1..Len(it.alts) : MatchAt(it.alts[a], s, i, gs, ge).ok
                THEN MatchAt(rest, s, i, gs, ge)
                ELSE NoMatch
          [] it.t = "eos" ->
                IF i = Len(s) + 1 THEN MatchAt(rest, s, i, gs, ge) ELSE NoMatch

\* the match at the leftmost position from `from` on that has one
RECURSIVE SearchFrom(_, _, _)
SearchFrom(items, s, from) ==
    IF from > Len(s) + 1 THEN [ok |-> FALSE, start |-> 0, end |-> 0, gs |-> 0, ge |-> 0]
    ELSE The({IF m.ok THEN [ok |-> TRUE, start |-> from, end |-> m.end, gs |-> m.gs, ge |-> m.ge]
              ELSE SearchFrom(items, s, from + 1) :
              m \in {MatchAt(items, s, from, 0, 0)}})

\* what the matcher reads under the flags: with re.IGNORECASE (ic) the folded
\* text; the patterns of the source are written in lower case already
Subject(s, ic) == IF ic THEN Fold(s) ELSE s

\* re.search
Search(items, s, ic) == SearchFrom(items, Subject(s, ic), 1)

Group1(s, m) == SubSeq(s, m.gs, m.ge - 1)

Group0(s, m) == SubSeq(s, m.start, m.end - 1)

\* re.findall: the non-overlapping matches, left to right; the captures of
\* group 1 when grouped, else the whole matches.  Every pattern of the source
\* consumes at least one character, so the scan resumes at the match's end.
RECURSIVE FindAllFrom(_, _, _, _, _)
FindAllFrom(items, s, subject, from, grouped) ==
    The({IF ~m.ok THEN <<>>
         ELSE <<IF grouped THEN Group1(s, m) ELSE Group0(s, m)>>
              \o FindAllFrom(items, s, subject, m.end, grouped) :
         m \in {SearchFrom(items, subject, from)}})

FindAll(items, s, ic, grouped) == FindAllFrom(items, s, Subject(s, ic), 1, grouped)

-----------------------------------------------------------------------------
(* parse_ai_response *)

Str(chars) == [isStr |-> TRUE, chars |-> chars]

\* a value that is not a string: the "content": null of a chat completion
NotAString == [isStr |-> FALSE, chars |-> <<>>]

DigitRun13 == Run(OneOf(Digits), 1, 3, TRUE)

Spaces == Star(OneOf(Whitespace))

score_patterns == <<
    <<GroupOpen, DigitRun13, GroupClose, Spaces>> \o Lit(<<"/">>) \o <<Spaces>>
        \o Lit(<<"1", "0", "0">>),
    <<GroupOpen, DigitRun13, GroupClose, Spaces>> \o Lit(<<"o", "u", "t", " ", "o", "f">>)
        \o <<Spaces>> \o Lit(<<"1", "0", "0">>),
    Lit(<<"s", "c", "o", "r", "e">>) \o <<Opt(OneOf({":"})), Spaces, GroupOpen, DigitRun13, GroupClose>>,
    Lit(<<"r", "a", "t", "i", "n", "g">>) \o <<Opt(OneOf({":"})), Spaces, GroupOpen, DigitRun13, GroupClose>>,
    Lit(<<"q", "u", "a", "l", "i", "t", "y">>) \o <<Opt(OneOf({":"})), Spaces, GroupOpen, DigitRun13, GroupClose>>
>>

LazyAny == Run(AnyChar, 0, Unbounded, FALSE)

NumberedMarker == <<Plus(OneOf(Digits)), OneOf({"."}), Spaces>>

numbered_pattern ==
    NumberedMarker \o <<GroupOpen, LazyAny, GroupClose,
                        LookAhead(<<NumberedMarker, <<EndOfString>>, Lit(<<NL, NL>>)>>)>>

BulletMarker == <<OneOf(BulletGlyphs), Spaces>>

bullet_pattern ==
    BulletMarker \o <<GroupOpen, LazyAny, GroupClose,
                      LookAhead(<<BulletMarker, <<EndOfString>>, Lit(<<NL, NL>>)>>)>>

sections == [
    architecture_analysis |-> <<
        <<"a", "r", "c", "h", "i", "t", "e", "c", "t", "u", "r", "e">>,
        <<"s", "t", "r", "u", "c", "t", "u", "r", "e">>,
        <<"o", "r", "g", "a", "n", "i", "z", "a", "t", "i", "o", "n">>,
        <<"d", "e", "s", "i", "g", "n">> >>,
    performance_analysis |-> <<
        <<"p", "e", "r", "f", "o", "r", "m", "a", "n", "c", "e">>,
        <<"o", "p", "t", "i", "m", "i", "z", "a", "t", "i", "o", "n">>,
        <<"s", "p", "e", "e", "d">>,
        <<"e", "f", "f", "i", "c", "i", "e", "n", "c", "y">> >>,
    security_analysis |-> <<
        <<"s", "e", "c", "u", "r", "i", "t", "y">>,
        <<"v", "u", "l", "n", "e", "r", "a", "b", "i", "l", "i", "t", "y">>,
        <<"r", "i", "s", "k">>,
        <<"p", "r", "o", "t", "e", "c", "t", "i", "o", "n">> >>,
    best_practices_analysis |-> <<
        <<"b", "e", "s", "t", " ", "p", "r", "a", "c", "t", "i", "c", "e">>,
        <<"c", "o", "n", "v", "e", "n", "t", "i", "o", "n">>,
        <<"s", "t", "a", "n", "d", "a", "r", "d">>,
        <<"p", "a", "t", "t", "e", "r", "n">> >>
]

NotTerminator == NoneOf(Terminators)

\* (faulty variant) {0,2}: one following sentence fewer
SectionPatternTwoMore(keyword) ==
    Lit(keyword) \o <<Star(NotTerminator), OneOf(Terminators),
                      Rep(<<Star(NotTerminator), OneOf(Terminators)>>, 0, 2)>>

\* rf"(?i)(?:{keyword}[^.!?]*[.!?](?:[^.!?]*[.!?]){{0,3}})"
SectionPattern(keyword) ==
    Lit(keyword) \o <<Star(NotTerminator), OneOf(Terminators),
                      Rep(<<Star(NotTerminator), OneOf(Terminators)>>, 0, 3)>>

\* (faulty variant) the break is missing: the last pattern with a valid
\* number sets the score
RECURSIVE ExtractScoreNoBreak(_, _)
ExtractScoreNoBreak(s, k) ==
    IF k > Len(score_patterns) THEN 0
    ELSE The({IF later # 0 THEN later
              ELSE The({IF match.ok
                        THEN The({IF 0 <= score /\ score <= 100 THEN score ELSE 0 :
                                  score \in {ToInt(Group1(s, match))}})
                        ELSE 0 :
                        match \in {Search(score_patterns[k], s, TRUE)}}) :
              later \in {ExtractScoreNoBreak(s, k + 1)}})

\* (faulty variant) the range check is missing
RECURSIVE ExtractScoreNoRange(_, _)
ExtractScoreNoRange(s, k) ==
    IF k > Len(score_patterns) THEN 0
    ELSE The({IF match.ok THEN ToInt(Group1(s, match)) ELSE ExtractScoreNoRange(s, k + 1) :
              match \in {Search(score_patterns[k], s, TRUE)}})

\* (faulty variant) a pattern whose match is out of range is tried again on the rest
\* of the text (re.finditer) before the next pattern
RECURSIVE ExtractScoreEveryMatch(_, _, _)
ExtractScoreEveryMatch(s, k, from) ==
    IF k > Len(score_patterns) THEN 0
    ELSE The({IF match.ok
              THEN The({IF 0 <= score /\ score <= 100 THEN score
                        ELSE ExtractScoreEveryMatch(s, k, match.end) :
                        score \in {ToInt(Group1(s, match))}})
              ELSE ExtractScoreEveryMatch(s, k + 1, 1) :
              match \in {SearchFrom(score_patterns[k], Fold(s), from)}})

ExtractScoreRetrying(s, k) == ExtractScoreEveryMatch(s, k, 1)

\* the loop over score_patterns from pattern k on: the first pattern whose
\* leftmost match captures a number in [0,100] sets the score and breaks.
\* int() of one to three digits cannot raise, so the ValueError arm is dead.
RECURSIVE ExtractScore(_, _)
ExtractScore(s, k) ==
    IF k > Len(score_patterns) THEN 0
    ELSE The({IF match.ok
              THEN The({IF 0 <= score /\ score <= 100 THEN score ELSE ExtractScore(s, k + 1) :
                        score \in {ToInt(Group1(s, match))}})
              ELSE ExtractScore(s, k + 1) :
              match \in {Search(score_patterns[k], s, TRUE)}})

\* [rec.strip() for rec in matches if rec.strip()]
RECURSIVE StripNonEmpty(_)
StripNonEmpty(matches) ==
    IF matches = <<>> THEN <<>>
    ELSE The({IF rec # <<>> THEN <<rec>> ELSE <<>> : rec \in {Strip(Head(matches))}})
         \o StripNonEmpty(Tail(matches))

MaxRecommendations == 10

\* (faulty variant) recommendations[:11]
TruncateOneMore(recs) ==
    SubSeq(recs, 1, IF Len(recs) < MaxRecommendations + 1 THEN Len(recs) ELSE MaxRecommendations + 1)

\* recommendations[:10]
Truncate(recs) == SubSeq(recs, 1, IF Len(recs) < MaxRecommendations THEN Len(recs) ELSE MaxRecommendations)

NumberedRecommendations(s) == StripNonEmpty(FindAll(numbered_pattern, s, FALSE, TRUE))

BulletRecommendations(s) == StripNonEmpty(FindAll(bullet_pattern, s, FALSE, TRUE))

ExtractRecommendations(s) == Truncate(NumberedRecommendations(s) \o BulletRecommendations(s))

\* (faulty variant) the break is missing: the last keyword with a match sets the field
RECURSIVE ExtractSectionNoBreak(_, _, _)
ExtractSectionNoBreak(s, keywords, k) ==
    IF k > Len(keywords) THEN <<>>
    ELSE The({IF later # <<>> THEN later
              ELSE The({IF matches # <<>> THEN JoinSpace(matches) ELSE <<>> :
                        matches \in {FindAll(SectionPattern(keywords[k]), s, TRUE, FALSE)}}) :
              later \in {ExtractSectionNoBreak(s, keywords, k + 1)}})

\* the loop over a section's keywords from keyword k on: the first keyword
\* with a match sets the field and breaks
RECURSIVE ExtractSection(_, _, _)
ExtractSection(s, keywords, k) ==
    IF k > Len(keywords) THEN <<>>
    ELSE The({IF matches # <<>> THEN JoinSpace(matches)
              ELSE ExtractSection(s, keywords, k + 1) :
              matches \in {FindAll(SectionPattern(keywords[k]), s, TRUE, FALSE)}})

\* the outcome of a block of code: a value returned or an exception raised
Returned(v) == [raised |-> "", value |-> v]
Raised(e) == [raised |-> e, value |-> <<>>]

\* the record the try block returns for a string
ParsedRecord(content) ==
    [overall_score |-> ExtractScore(content.chars, 1),
     recommendations |-> ExtractRecommendations(content.chars),
     architecture_analysis |-> ExtractSection(content.chars, sections.architecture_analysis, 1),
     performance_analysis |-> ExtractSection(content.chars, sections.performance_analysis, 1),
     security_analysis |-> ExtractSection(content.chars, sections.security_analysis, 1),
     best_practices_analysis |-> ExtractSection(content.chars, sections.best_practices_analysis, 1),
     raw_response |-> content]

\* (faulty variant) the text is taken for a pattern: an unclosed "(" or "[" raises re.error
ParseBodyTextAsPattern(content) ==
    IF ~content.isStr THEN Raised("TypeError")
    ELSE IF \E k \in 1..Len(content.chars) : content.chars[k] \in {"(", "["} THEN Raised("ValueError")
    ELSE Returned(ParsedRecord(content))

\* the body of the try block; re.search raises TypeError on a non-string
ParseBody(content) ==
    IF ~content.isStr THEN Raised("TypeError")
    ELSE Returned(ParsedRecord(content))

\* (faulty variant) "except ValueError" in place of "except Exception"
CaughtByValueError == {"ValueError"}

\* the exceptions "except Exception" catches
CaughtByException == {"TypeError", "ValueError"}

\* (faulty variant) the except block forgets the input
ParseErrorRecordNoRaw(content, e) ==
    [overall_score |-> 0,
     recommendations |-> <<>>,
     error |-> <<"Error parsing AI response: ", e>>,
     raw_response |-> Str(<<>>)]

\* the record of the except block
ParseErrorRecord(content, e) ==
    [overall_score |-> 0,
     recommendations |-> <<>>,
     error |-> <<"Error parsing AI response: ", e>>,
     raw_response |-> content]

\* what a call hands its caller: the record returned, or the exception that escapes
Propagated(e) == [propagated |-> e]

parse_ai_response(content) ==
    The({IF body.raised = "" THEN body.value
         ELSE IF body.raised \in CaughtByException THEN ParseErrorRecord(content, body.raised)
         ELSE Propagated(body.raised) :
         body \in {ParseBody(content)}})

-----------------------------------------------------------------------------
(* analyze_with_ai and analyze_github_repo *)

KeyMissingRecord == [error |-> <<"OpenRouter API key not configured">>, recommendations |-> <<>>]

StatusErrorRecord == [error |-> <<"OpenRouter API error: ", "status">>, recommendations |-> <<>>]

CallErrorRecord(e) == [error |-> <<"Error calling OpenRouter API: ", e>>, recommendations |-> <<>>]

\* outcome: what the POST to the gateway did: "ok" (status 200, content is the
\* message content), "status" (another status) or "exception" (it raised)
analyze_with_ai(api_key, outcome, content) ==
    IF ~api_key THEN KeyMissingRecord
    ELSE IF outcome = "exception" THEN CallErrorRecord("HTTPError")
    ELSE IF outcome = "status" THEN StatusErrorRecord
    ELSE The({IF "propagated" \in DOMAIN analysis_result
              THEN CallErrorRecord(analysis_result.propagated)
              ELSE analysis_result :
              analysis_result \in {parse_ai_response(content)}})

\* the score of analyze_code_quality: min(100, max(60, 75 + hash % 20))
MinFallback == 75
MaxFallback == 94

\* The pairs <<ai_score, code_quality>>, ai_score in 1..100 and code_quality in
\* MinFallback..MaxFallback, where the binary64 value of
\* 0.7 * ai_score + 0.3 * code_quality lies just below the integer
\* (7 * ai_score + 3 * code_quality) / 10, so that int() gives one less.
Binary64Shortfall ==
    {<<2, 82>>, <<2, 92>>, <<7, 77>>, <<7, 87>>, <<48, 78>>, <<48, 88>>, <<53, 83>>,
     <<58, 78>>, <<92, 82>>, <<92, 92>>, <<96, 76>>, <<96, 86>>, <<97, 77>>, <<97, 87>>}

\* int(0.7 * ai_score + 0.3 * code_quality) in binary64 arithmetic
WeightedScore(ai_score, code_quality) ==
    ((7 * ai_score + 3 * code_quality) \div 10)
        - (IF <<ai_score, code_quality>> \in Binary64Shortfall THEN 1 ELSE 0)

generic_recommendations == <<
    <<"Implement comprehensive unit tests to improve code coverage">>,
    <<"Add detailed documentation for public APIs and functions">>,
    <<"Consider using type hints to improve code readability and catch errors early">>,
    <<"Refactor large functions into smaller, more manageable pieces">>,
    <<"Implement consistent error handling throughout the codebase">>,
    <<"Add logging to help with debugging and monitoring">>,
    <<"Consider using a linter to enforce coding standards">>,
    <<"Review security practices, especially around user inputs and authentication">>,
    <<"Optimize database queries for better performance">>,
    <<"Implement CI/CD pipelines for automated testing and deployment">> >>

num_recommendations == 5

\* seed: hash(repo_path) % 100
generate_recommendations(seed) ==
    [i \in 1..num_recommendations |->
        generic_recommendations[((seed + i - 1) % Len(generic_recommendations)) + 1]]

GenericDetails == [
    code_structure |-> <<"The codebase has a clear structure but could benefit from more modularization.">>,
    performance |-> <<"Performance is generally good, but there are opportunities for optimization.">>,
    security |-> <<"Some potential security issues were found.">>,
    best_practices |-> <<"The code mostly follows best practices, but there are inconsistencies.">>]

NoData == <<"No data available">>

\* dict.get(key, default)
Get(d, key, default) == IF key \in DOMAIN d THEN d[key] ELSE default

\* Python's None
None == [none |-> TRUE]

\* truth of ai_analysis.get(key): a non-empty string or list
Truthy(d, key) == key \in DOMAIN d /\ d[key] # <<>>

\* repo: the clone as the basic analysis sees it (code_quality, seed);
\* api_key: OPENROUTER_API_KEY is set; outcome, content: as in analyze_with_ai
\* lines 194-197: analyze_with_ai is called only when OPENROUTER_API_KEY is set
AiAnalysis(gateway, content) ==
    IF gateway.api_key THEN analyze_with_ai(gateway.api_key, gateway.outcome, content) ELSE None

\* repo: the clone as the basic analysis sees it (code_quality, seed);
\* ai_analysis: the value of AiAnalysis
analyze_github_repo(repo, ai_analysis) ==
    LET basic_recommendations == generate_recommendations(repo.seed)
        succeeded == ai_analysis # None /\ ~Truthy(ai_analysis, "error")
        use_ai == succeeded /\ Truthy(ai_analysis, "recommendations")
        ai_score == Get(ai_analysis, "overall_score", 0)
        code_quality == IF use_ai /\ ai_score > 0
                        THEN WeightedScore(ai_score, repo.code_quality)
                        ELSE repo.code_quality
        details == IF succeeded
                   THEN [code_structure |-> Get(ai_analysis, "architecture_analysis", NoData),
                         performance |-> Get(ai_analysis, "performance_analysis", NoData),
                         security |-> Get(ai_analysis, "security_analysis", NoData),
                         best_practices |-> Get(ai_analysis, "best_practices_analysis", NoData)]
                   ELSE GenericDetails
    IN  [code_quality |-> code_quality,
         bugs_found |-> repo.seed % 10,
         recommendations |-> IF use_ai THEN ai_analysis.recommendations ELSE basic_recommendations,
         details |-> details,
         ai_analysis |-> ai_analysis]

-----------------------------------------------------------------------------
(* The inputs: the message content is put together from chunks of a family *)

MaxChunks == 3

ScoreChunks == {
    <<"8", "7", "/", "1", "0", "0">>,
    <<"1", "5", "0", "/", "1", "0", "0">>,
    <<"1">>,
    <<" ">>,
    <<"5", " ", "o", "u", "t", " ", "o", "f", " ", "1", "0", "0">>,
    <<"S", "c", "o", "r", "e", ":", " ", "4", "2">>,
    <<"r", "a", "t", "i", "n", "g", " ", "1", "0", "1">>,
    <<"q", "u", "a", "l", "i", "t", "y", ":", "7">>,
    <<"-", " ", "t">> }

ListChunks == {
    <<"1", ".", "a", " ", "2", ".", "b", " ", "3", ".", "c", " ", "4", ".", "d", " ">>,
    <<"-", "e", " ", "-", "f", " ", "*", "g", " ", "-", "h", " ">>,
    <<"1", ".">>,
    <<"-", " ">>,
    <<Bullet>>,
    <<"x">>,
    <<" ">>,
    <<NL, NL>> }

SectionChunks == {
    <<"S", "e", "c", "u", "r", "i", "t", "y">>,
    <<"r", "i", "s", "k">>,
    <<"s", "t", "r", "u", "c", "t", "u", "r", "e">>,
    <<"d", "e", "s", "i", "g", "n">>,
    <<".">>,
    <<"?">>,
    <<" ", "a">>,
    <<"b", ".", "c", "!", "d", "?", "e", ".", "f", ".">> }

\* malformed text: nested and repeated delimiters
DelimiterChunks == {
    <<"(", "(">>,
    <<")", ")">>,
    <<"[", "[">>,
    <<"*", "*">>,
    <<"-", "-">>,
    <<"1", ".">>,
    <<".", ".">>,
    <<NL, NL>> }

Families == {"score", "list", "section", "delimiter"}

Chunks(f) ==
    CASE f = "score" -> ScoreChunks
      [] f = "list" -> ListChunks
      [] f = "section" -> SectionChunks
      [] f = "delimiter" -> DelimiterChunks

\* the repositories analysed: the basic score and the seed of the path's hash
Repos == {[code_quality |-> MinFallback, seed |-> 0],
          [code_quality |-> 87, seed |-> 13],
          [code_quality |-> MaxFallback, seed |-> 99]}

\* the gateway as a call meets it: no key configured (and so no POST), or a
\* key and the POST's outcome
Gateways == {[api_key |-> FALSE, outcome |-> "not called"],
             [api_key |-> TRUE, outcome |-> "ok"],
             [api_key |-> TRUE, outcome |-> "status"],
             [api_key |-> TRUE, outcome |-> "exception"]}

-----------------------------------------------------------------------------
(* The /analyze handler, analyze_repository (src/main.py): its data *)

MaxRequests == 2
MaxClock == 1

\* request.user_id and request.repository_url
Users == {"u1", "u2"}
Urls == {"https://github.com/o/r"}

\* the clone and the gateway's reply a request's analysis meets
HandlerRepo == [code_quality |-> 87, seed |-> 13]
HandlerReply == Str(<<"8", "7", "/", "1", "0", "0", " ", "-", " ", "t">>)
HandlerGateways == {[api_key |-> FALSE, outcome |-> "not called"],
                    [api_key |-> TRUE, outcome |-> "ok"]}

\* what analyze_github_repo returns to the handler (lines 234-243)
HandlerAnalyses ==
    {analyze_github_repo(HandlerRepo, AiAnalysis(gateway, HandlerReply)) :
        gateway \in HandlerGateways}

\* the handler's answer: the 200 response carrying the returned dict, or the
\* error response of a raised HTTPException
HTTPResponse(body) == [status_code |-> 200, body |-> body]
HTTPException(status_code, detail) == [status_code |-> status_code, detail |-> detail]

\* a request not yet received; returned is what analyze_github_repo gave
\* back, the other fields are the handler's locals and its response
IdleRequest ==
    [pc |-> "idle", user_id |-> "", repository_url |-> "", returned |-> None,
     analysis_result |-> None, analysis_id |-> None, response |-> None]

\* a request answered: the handler's frame and its locals are gone
DoneRequest == [IdleRequest EXCEPT !.pc = "done"]

\* f"analysis_{int(time.time())}"
AnalysisId(seconds) == [prefix |-> "analysis_", seconds |-> seconds]

\* str(uuid.uuid4()) as request r draws it: no two draws are equal
Uuid4(r) == [uuid |-> r]

get_supabase_client(is_configured) ==
    IF is_configured THEN Returned("headers") ELSE Raised("HTTPException")

\* (faulty variant) "except httpx.RequestError" in place of "except Exception"
SupabaseExceptRequestError == {"RequestError"}

\* what "except Exception as supabase_error" catches, of the exceptions the
\* persistence steps raise
SupabaseExcept == {"HTTPException", "RequestError", "JSONDecodeError"}

\* line 356: the handler returns analysis_result; the frame's other locals
\* end here
Return(req) ==
    [DoneRequest EXCEPT !.pc = "respond",
                        !.returned = req.returned,
                        !.analysis_id = req.analysis_id,
                        !.response = HTTPResponse(req.analysis_result)]

\* a persistence step of request req raised e: the inner except block prints
\* it and the handler returns analysis_result; what that block does not catch
\* reaches the outer except block, which raises HTTPException(500)
SupabaseError(req, e) ==
    IF e \in SupabaseExcept
    THEN Return(req)
    ELSE [DoneRequest EXCEPT !.pc = "respond",
                             !.returned = req.returned,
                             !.analysis_id = req.analysis_id,
                             !.response = HTTPException(500, e)]

-----------------------------------------------------------------------------
(* The state machine *)

InitFamily(f) ==
    /\ family = f
    /\ ai_content = Str(<<>>)
    /\ chunks = 0
    /\ pc = "build"
    /\ result = None
    /\ call = None
    /\ report = None
    /\ clock = 0
    /\ configured = TRUE
    /\ requests = [r \in 1..MaxRequests |-> IdleRequest]
    /\ repositories = {}
    /\ analyses = {}

Init == \E f \in Families : InitFamily(f)

\* the model's reply grows by one chunk
AppendChunk ==
    /\ pc = "build"
    /\ ai_content.isStr
    /\ chunks < MaxChunks
    /\ \E c \in Chunks(family) : ai_content' = Str(ai_content.chars \o c)
    /\ chunks' = chunks + 1
    /\ UNCHANGED <<family, pc, result, call, report>>
    /\ UNCHANGED handler_vars

\* the reply's content is null
ReceiveNull ==
    /\ pc = "build"
    /\ chunks = 0
    /\ ai_content.isStr
    /\ ai_content' = NotAString
    /\ UNCHANGED <<family, chunks, pc, result, call, report>>
    /\ UNCHANGED handler_vars

\* parse_ai_response is called on the content
Parse ==
    /\ pc = "build"
    /\ result' = parse_ai_response(ai_content)
    /\ pc' = "parsed"
    /\ UNCHANGED <<family, ai_content, chunks, call, report>>
    /\ UNCHANGED handler_vars

\* analyze_github_repo runs to its return; a reply has content only when the
\* key is set and the POST answered 200
AnalyzeGithubRepo ==
    /\ pc = "build"
    /\ \E gateway \in Gateways :
          /\ gateway.outcome # "ok" => (chunks = 0 /\ ai_content.isStr)
          /\ \E ai_analysis \in {AiAnalysis(gateway, ai_content)}, repo \in Repos :
                /\ call' = [repo |-> repo, gateway |-> gateway]
                /\ report' = analyze_github_repo(repo, ai_analysis)
    /\ pc' = "reported"
    /\ UNCHANGED <<family, ai_content, chunks, result>>
    /\ UNCHANGED handler_vars

Next == AppendChunk \/ ReceiveNull \/ Parse \/ AnalyzeGithubRepo

Spec == Init /\ [][Next]_vars

InitScore == InitFamily("score")
SpecScore == InitScore /\ [][Next]_vars

InitList == InitFamily("list")
SpecList == InitList /\ [][Next]_vars

InitSection == InitFamily("section")
SpecSection == InitSection /\ [][Next]_vars

InitDelimiter == InitFamily("delimiter")
SpecDelimiter == InitDelimiter /\ [][Next]_vars

-----------------------------------------------------------------------------
(* The /analyze handler: one action per step between two awaits *)

InitHandler ==
    /\ family = "handler"
    /\ ai_content = Str(<<>>)
    /\ chunks = 0
    /\ pc = "handler"
    /\ result = None
    /\ call = None
    /\ report = None
    /\ clock = 0
    /\ configured \in BOOLEAN
    /\ requests = [r \in 1..MaxRequests |-> IdleRequest]
    /\ repositories = {}
    /\ analyses = {}

\* a second of wall-clock time passes; the clock is followed for as long as
\* a request has yet to read it
Tick ==
    /\ clock < MaxClock
    /\ \E r \in 1..MaxRequests : requests[r].pc \in {"idle", "analyze"}
    /\ clock' = clock + 1
    /\ UNCHANGED <<configured, requests, repositories, analyses>>
    /\ UNCHANGED parser_vars

\* POST /analyze arrives
ReceiveRequest ==
    /\ \E r \in 1..MaxRequests :
          /\ requests[r].pc = "idle"
          /\ r > 1 => requests[r - 1].pc # "idle"
          /\ \E user_id \in Users, repository_url \in Urls :
                requests' = [requests EXCEPT ![r] =
                    [@ EXCEPT !.pc = "analyze", !.user_id = user_id,
                              !.repository_url = repository_url]]
    /\ UNCHANGED <<clock, configured, repositories, analyses>>
    /\ UNCHANGED parser_vars

\* lines 264-275, up to the first await of the persistence block:
\* analyze_github_repo returns its result, or raises HTTPException(500), which
\* the outer except block raises again; the id is made from the clock's
\* second; get_supabase_client gives the headers or raises
AnalyzeRepo ==
    /\ \E r \in 1..MaxRequests :
          /\ requests[r].pc = "analyze"
          /\ \/ requests' = [requests EXCEPT ![r] =
                    [DoneRequest EXCEPT !.pc = "respond",
                                        !.response = HTTPException(500, "Error analyzing repository")]]
             \/ \E report_returned \in HandlerAnalyses :
                  \E analysis \in {[repository_url |-> requests[r].repository_url]
                                   @@ report_returned},
                     analysis_id \in {AnalysisId(clock)},
                     supabase_headers \in {get_supabase_client(configured)} :
                     \E identified \in {[requests[r] EXCEPT
                                            !.returned = analysis,
                                            !.analysis_id = analysis_id,
                                            !.analysis_result = [id |-> analysis_id] @@ analysis]} :
                        requests' = [requests EXCEPT ![r] =
                            IF supabase_headers.raised = ""
                            THEN [identified EXCEPT !.pc = "check"]
                            ELSE SupabaseError(identified, supabase_headers.raised)]
    /\ UNCHANGED <<clock, configured, repositories, analyses>>
    /\ UNCHANGED parser_vars

\* lines 278-297: the GET on the repositories table and what the handler
\* makes of its answer; repository_id is not read after line 297
CheckRepository ==
    /\ \E r \in 1..MaxRequests :
          /\ requests[r].pc = "check"
          /\ \E answer \in {"200", "status", "RequestError", "JSONDecodeError"} :
                IF answer \in {"RequestError", "JSONDecodeError"}
                THEN requests' = [requests EXCEPT ![r] = SupabaseError(@, answer)]
                ELSE \E existing_repos \in
                            {IF answer = "200"
                             THEN {row \in repositories :
                                      /\ row.url = requests[r].repository_url
                                      /\ row.userId = requests[r].user_id}
                             ELSE {}} :
                        \E repository_id \in
                               IF existing_repos # {}
                               THEN {row.id : row \in existing_repos}
                               ELSE {None} :
                           requests' = [requests EXCEPT ![r] =
                               [@ EXCEPT !.pc = IF repository_id = None THEN "create" ELSE "save"]]
    /\ UNCHANGED <<clock, configured, repositories, analyses>>
    /\ UNCHANGED parser_vars

\* lines 298-321: the POST to the repositories table; an answer of 400 or
\* more is printed
CreateRepository ==
    /\ \E r \in 1..MaxRequests :
          /\ requests[r].pc = "create"
          /\ \E answer \in {"201", "status", "RequestError"} :
                LET repository_data ==
                        [id |-> Uuid4(r), userId |-> requests[r].user_id,
                         url |-> requests[r].repository_url]
                IN  CASE answer = "201" ->
                            /\ repositories' = repositories \cup {repository_data}
                            /\ requests' = [requests EXCEPT ![r] =
                                  [@ EXCEPT !.pc = "save"]]
                      [] answer = "status" ->
                            /\ repositories' = repositories
                            /\ requests' = [requests EXCEPT ![r] = [@ EXCEPT !.pc = "save"]]
                      [] answer = "RequestError" ->
                            /\ repositories' = repositories
                            /\ requests' = [requests EXCEPT ![r] = SupabaseError(@, answer)]
    /\ UNCHANGED <<clock, configured, analyses>>
    /\ UNCHANGED parser_vars

\* lines 324-356: the POST to the analyses table, and the return; an answer
\* of 400 or more is printed
SaveAnalysis ==
    /\ \E r \in 1..MaxRequests :
          /\ requests[r].pc = "save"
          /\ \E answer \in {"201", "status", "RequestError"} :
                LET analysis_data ==
                        [id |-> requests[r].analysis_id, sent_by |-> r]
                IN  IF answer = "RequestError"
                    THEN /\ analyses' = analyses
                         /\ requests' = [requests EXCEPT ![r] = SupabaseError(@, answer)]
                    ELSE /\ analyses' = analyses \cup {analysis_data}
                         /\ requests' = [requests EXCEPT ![r] = Return(@)]
    /\ UNCHANGED <<clock, configured, repositories>>
    /\ UNCHANGED parser_vars

\* the response goes out to the client and the handler's frame is dropped
Respond ==
    /\ \E r \in 1..MaxRequests :
          /\ requests[r].pc = "respond"
          /\ requests' = [requests EXCEPT ![r] = DoneRequest]
    /\ UNCHANGED <<clock, configured, repositories, analyses>>
    /\ UNCHANGED parser_vars

HandlerNext ==
    \/ Tick
    \/ ReceiveRequest
    \/ AnalyzeRepo
    \/ CheckRepository
    \/ CreateRepository
    \/ SaveAnalysis
    \/ Respond

SpecHandler == InitHandler /\ [][HandlerNext]_vars

-----------------------------------------------------------------------------
(* Properties of parse_ai_response on any input *)

AnalysisFields == {"architecture_analysis", "performance_analysis",
                   "security_analysis", "best_practices_analysis"}

DefaultRecord(content) ==
    [overall_score |-> 0,
     recommendations |-> <<>>,
     architecture_analysis |-> <<>>,
     performance_analysis |-> <<>>,
     security_analysis |-> <<>>,
     best_practices_analysis |-> <<>>,
     raw_response |-> content]

\* C1: parse_ai_response is total: whatever the input, a string or not, it
\* returns a record and no exception escapes it; on the empty string the record
\* is the default one (score 0, no recommendations, four empty analysis
\* strings, raw_response the empty string) and has no error field.
C1_Total ==
    pc = "parsed" =>
        /\ "propagated" \notin DOMAIN result
        /\ {"overall_score", "recommendations", "raw_response"} \subseteq DOMAIN result
        /\ ai_content = Str(<<>>) => result = DefaultRecord(Str(<<>>))

C1_Witness ==
    /\ pc = "parsed"
    /\ ai_content = Str(<<>>)
    /\ result.overall_score = 0
    /\ "error" \notin DOMAIN result

\* a sub-step of the parse raised
ParseRaised == ParseBody(ai_content).raised # ""

\* C2 as claimed: when a sub-step raises, the record has score 0, no
\* recommendations, the four analysis fields present and empty, raw_response
\* the input and the error field populated.
C2_Original ==
    (pc = "parsed" /\ ParseRaised) =>
        /\ result.overall_score = 0
        /\ result.recommendations = <<>>
        /\ \A f \in AnalysisFields : f \in DOMAIN result /\ result[f] = <<>>
        /\ result.raw_response = ai_content
        /\ "error" \in DOMAIN result /\ result.error # <<>>

\* C2 as amended: when a sub-step raises, the record holds exactly
\* overall_score = 0, recommendations = [], the populated error and
\* raw_response, the input verbatim; the four analysis fields are absent from
\* it, and nothing computed before the failure is kept.
C2_Amended ==
    (pc = "parsed" /\ ParseRaised) =>
        /\ DOMAIN result = {"overall_score", "recommendations", "error", "raw_response"}
        /\ result.overall_score = 0
        /\ result.recommendations = <<>>
        /\ result.raw_response = ai_content
        /\ result.error # <<>>

C2_Witness ==
    /\ pc = "parsed"
    /\ ~ai_content.isStr
    /\ "error" \in DOMAIN result
    /\ AnalysisFields \cap DOMAIN result = {}

\* text made of nested and repeated delimiters
Adversarial == family = "delimiter" /\ ai_content.isStr /\ chunks >= 1

\* C9 as claimed: on malformed or adversarial text no exception escapes and
\* the record degrades: error populated, every other field at its default.
C9_Original ==
    (pc = "parsed" /\ Adversarial) =>
        /\ "propagated" \notin DOMAIN result
        /\ "error" \in DOMAIN result /\ result.error # <<>>
        /\ result.overall_score = 0
        /\ result.recommendations = <<>>

\* C9 as amended: on malformed or adversarial text no exception escapes and
\* nothing degrades: no pattern raises on a string, so the record has no error
\* field, holds the four analysis fields, the score and the recommendations
\* the extraction rules give for that text, and raw_response, the input.
C9_Amended ==
    (pc = "parsed" /\ Adversarial) =>
        /\ "propagated" \notin DOMAIN result
        /\ "error" \notin DOMAIN result
        /\ AnalysisFields \subseteq DOMAIN result
        /\ result.raw_response = ai_content

\* "((1.--": the list patterns find entries among the delimiters
C9_Witness ==
    /\ pc = "parsed"
    /\ Adversarial
    /\ chunks >= 2
    /\ \E k \in 1..Len(ai_content.chars) : ai_content.chars[k] = "("
    /\ "error" \notin DOMAIN result
    /\ result.recommendations # <<>>

-----------------------------------------------------------------------------
(* Properties of the score *)

\* the leftmost match of score pattern k in s
FirstMatch(s, k) == Search(score_patterns[k], s, TRUE)

\* the number the leftmost match of pattern k captures, -1 when there is none
Captured(s, k) ==
    LET m == FirstMatch(s, k) IN IF m.ok THEN ToInt(Group1(s, m)) ELSE 0 - 1

\* the patterns whose leftmost match captures a number in [0,100]
ValidPatterns(s) == {k \in 1..Len(score_patterns) : Captured(s, k) \in 0..100}

\* C3: the score of the record is an integer in [0,100], and it is 0 whenever
\* no score pattern yields a captured number in [0,100].
C3_ScoreRange ==
    pc = "parsed" =>
        /\ result.overall_score \in 0..100
        /\ (~ai_content.isStr \/ ValidPatterns(ai_content.chars) = {}) => result.overall_score = 0

\* "150/100": a pattern matches, its number is out of range, the score stays 0
C3_Witness ==
    /\ pc = "parsed"
    /\ ai_content.isStr
    /\ \E k \in 1..Len(score_patterns) : Captured(ai_content.chars, k) > 100
    /\ ValidPatterns(ai_content.chars) = {}
    /\ result.overall_score = 0

\* C4: the score is the number captured by the leftmost match of the earliest
\* pattern, in the order N/100, N out of 100, score N, rating N, quality N,
\* whose leftmost match is in [0,100]: a pattern whose leftmost match is out of
\* range is passed over whatever its later matches are, and no later pattern
\* counts once an earlier one gave a valid score; 0 when there is none.
C4_FirstValidPattern ==
    (pc = "parsed" /\ ai_content.isStr) =>
        LET valid == ValidPatterns(ai_content.chars)
        IN  IF valid = {} THEN result.overall_score = 0
            ELSE \E k \in valid :
                    /\ \A j \in valid : k <= j
                    /\ result.overall_score = Captured(ai_content.chars, k)

\* "150/100" then "87/100" then "Score: 42": the leftmost N/100 is out of range,
\* the N/100 after it is not tried, and the score pattern gives 42
C4_Witness ==
    /\ pc = "parsed"
    /\ ai_content.isStr
    /\ Captured(ai_content.chars, 1) > 100
    /\ LET later == SearchFrom(score_patterns[1], Fold(ai_content.chars),
                               FirstMatch(ai_content.chars, 1).end)
       IN  later.ok /\ ToInt(Group1(ai_content.chars, later)) \in 0..100
    /\ Captured(ai_content.chars, 3) = 42
    /\ result.overall_score = 42

\* the positions where "87/100" occurs in s
Occurrences87(s) ==
    {i \in 1..Len(s) : i + 5 <= Len(s) /\ SubSeq(s, i, i + 5) = <<"8", "7", "/", "1", "0", "0">>}

\* C5 as claimed: for all text containing "87/100" the score is 87.
C5_Original ==
    (pc = "parsed" /\ ai_content.isStr /\ Occurrences87(ai_content.chars) # {}) =>
        result.overall_score = 87

\* C5 as amended: for all text containing "87/100" at a place before which no
\* match of the N/100 pattern begins (so the 87 is not the tail of a longer
\* run of digits and no other N/100 precedes it), the score is 87, whatever
\* else precedes or follows.
C5_Amended ==
    (pc = "parsed" /\ ai_content.isStr) =>
        LET s == ai_content.chars
        IN  (\E i \in Occurrences87(s) :
                \A j \in 1..(i - 1) : ~MatchAt(score_patterns[1], Fold(s), j, 0, 0).ok)
            => result.overall_score = 87

\* "quality:7 87/100": a later pattern matches earlier in the text, 87 wins
C5_Witness ==
    /\ pc = "parsed"
    /\ ai_content.isStr
    /\ Occurrences87(ai_content.chars) # {}
    /\ Captured(ai_content.chars, 5) = 7
    /\ FirstMatch(ai_content.chars, 5).start < FirstMatch(ai_content.chars, 1).start
    /\ result.overall_score = 87

-----------------------------------------------------------------------------
(* Properties of the recommendations *)

NonEmpty(x) == x # <<>>

\* the captures of a list pattern in s, trimmed, the empty ones dropped
Entries(pattern, s) ==
    LET captures == FindAll(pattern, s, FALSE, TRUE)
    IN  SelectSeq([k \in 1..Len(captures) |-> Strip(captures[k])], NonEmpty)

Min(a, b) == IF a < b THEN a ELSE b

\* C6: the recommendations are the first 10 entries of the numbered-list
\* captures, in text order, followed by the bullet-list captures, in text
\* order, each trimmed and the empty ones dropped; so there are at most 10,
\* none is empty, and no bullet entry precedes a numbered one.
C6_Recommendations ==
    (pc = "parsed" /\ ai_content.isStr) =>
        LET numbered == Entries(numbered_pattern, ai_content.chars)
            bullets == Entries(bullet_pattern, ai_content.chars)
            recs == result.recommendations
            n == Min(Len(numbered), Len(recs))
        IN  /\ Len(recs) = Min(10, Len(numbered) + Len(bullets))
            /\ \A k \in 1..Len(recs) :
                  /\ recs[k] # <<>>
                  /\ recs[k][1] \notin Whitespace
                  /\ recs[k][Len(recs[k])] \notin Whitespace
            /\ \A k \in 1..n : recs[k] = numbered[k]
            /\ \A k \in (n + 1)..Len(recs) : recs[k] = bullets[k - n]

\* eight numbered entries and four bullet entries: the list stops after the
\* second bullet entry
C6_Witness ==
    /\ pc = "parsed"
    /\ ai_content.isStr
    /\ Len(Entries(numbered_pattern, ai_content.chars)) = 8
    /\ Len(Entries(bullet_pattern, ai_content.chars)) = 4
    /\ Len(result.recommendations) = 10
    /\ result.recommendations[9] = <<"e">>
    /\ result.recommendations[10] = <<"f">>

-----------------------------------------------------------------------------
(* Properties of the sections *)

\* the keywords of a section, by position, whose pattern matches somewhere in s
Matching(s, key) ==
    {k \in 1..Len(sections[key]) : FindAll(SectionPattern(sections[key][k]), s, TRUE, FALSE) # <<>>}

\* C7: for each of the four categories the field comes from the first keyword,
\* in the fixed order, that has a match, whatever the later keywords match; it
\* is the empty string when no keyword of the category matches.
C7_FirstKeyword ==
    (pc = "parsed" /\ ai_content.isStr) =>
        \A key \in AnalysisFields :
            LET s == ai_content.chars
                matching == Matching(s, key)
            IN  IF matching = {} THEN result[key] = <<>>
                ELSE \E k \in matching :
                        /\ \A j \in matching : k <= j
                        /\ result[key] = JoinSpace(FindAll(SectionPattern(sections[key][k]), s, TRUE, FALSE))

\* "riskSecurity.": security and risk both match, and the field is what
\* security gives, not what risk gives; no performance keyword matches
C7_Witness ==
    /\ pc = "parsed"
    /\ ai_content.isStr
    /\ Matching(ai_content.chars, "security_analysis") = {1, 3}
    /\ result.security_analysis = <<"S", "e", "c", "u", "r", "i", "t", "y", ".">>
    /\ result.security_analysis #
          JoinSpace(FindAll(SectionPattern(sections.security_analysis[3]), ai_content.chars, TRUE, FALSE))
    /\ Matching(ai_content.chars, "performance_analysis") = {}
    /\ result.performance_analysis = <<>>

\* keyword occurs in s at position i, in any case
OccursAt(keyword, s, i) ==
    /\ i + Len(keyword) - 1 <= Len(s)
    /\ \A k \in 1..Len(keyword) : Lower(s[i + k - 1]) = keyword[k]

\* the positions of the sentence terminators of s from position i on
TerminatorsFrom(s, i) == {p \in i..Len(s) : s[p] \in Terminators}

\* the n-th smallest element of a set of numbers
Nth(S, n) == CHOOSE p \in S : Cardinality({q \in S : q <= p}) = n

\* the first keyword of a section's list that occurs in s with a terminator
\* somewhere after it, 0 when there is none
Selected(s, key) ==
    LET usable == {k \in 1..Len(sections[key]) :
                     \E i \in 1..Len(s) : /\ OccursAt(sections[key][k], s, i)
                                          /\ TerminatorsFrom(s, i + Len(sections[key][k])) # {}}
    IN  IF usable = {} THEN 0 ELSE CHOOSE k \in usable : \A j \in usable : k <= j

\* the whole sentence around position i: from after the terminator before i
\* to the terminator that ends it, and up to three sentences more
WholeSentences(s, i) ==
    LET before == {p \in 1..(i - 1) : s[p] \in Terminators}
        start == IF before = {} THEN 1 ELSE 1 + CHOOSE p \in before : \A q \in before : q <= p
        ends == TerminatorsFrom(s, i)
        end == IF ends = {} THEN Len(s) ELSE Nth(ends, Min(4, Cardinality(ends)))
    IN  SubSeq(s, start, end)

\* one whole-sentence excerpt for each occurrence of keyword from position i on
RECURSIVE ExcerptPerOccurrence(_, _, _)
ExcerptPerOccurrence(s, keyword, i) ==
    IF i > Len(s) THEN <<>>
    ELSE (IF OccursAt(keyword, s, i) THEN <<WholeSentences(s, i)>> ELSE <<>>)
         \o ExcerptPerOccurrence(s, keyword, i + 1)

\* C8 as claimed: the section is the single-space join of one excerpt per
\* occurrence of the selected keyword, each the whole sentence containing the
\* occurrence plus up to 3 following sentences.
C8_Original ==
    (pc = "parsed" /\ ai_content.isStr) =>
        \A key \in AnalysisFields :
            LET s == ai_content.chars
                k == Selected(s, key)
            IN  k # 0 => result[key] = JoinSpace(ExcerptPerOccurrence(s, sections[key][k], 1))

\* the excerpts of a left-to-right scan from position i on: the next
\* occurrence of keyword with a terminator after it starts an excerpt, which
\* runs to the fourth terminator after the keyword or, when there are fewer,
\* to the last; the scan goes on behind the excerpt
RECURSIVE ScanExcerpts(_, _, _)
ScanExcerpts(s, keyword, i) ==
    LET starts == {p \in i..Len(s) : /\ OccursAt(keyword, s, p)
                                     /\ TerminatorsFrom(s, p + Len(keyword)) # {}}
        start == CHOOSE p \in starts : \A q \in starts : p <= q
        ends == TerminatorsFrom(s, start + Len(keyword))
        end == Nth(ends, Min(4, Cardinality(ends)))
    IN  IF starts = {} THEN <<>>
        ELSE <<SubSeq(s, start, end)>> \o ScanExcerpts(s, keyword, end + 1)

\* C8 as amended: the section is the single-space join of the excerpts a
\* left-to-right scan finds for the selected keyword, matched in any case: an
\* excerpt begins at an occurrence of the keyword itself, not at the start of
\* its sentence, and runs through the end of that sentence and up to 3
\* following sentences, a sentence ending at '.', '!' or '?'; the scan resumes
\* behind the excerpt, so an occurrence inside an earlier excerpt, or one with
\* no terminator after it, has no excerpt of its own.
C8_Amended ==
    (pc = "parsed" /\ ai_content.isStr) =>
        \A key \in AnalysisFields :
            LET s == ai_content.chars
                k == Selected(s, key)
            IN  IF k = 0 THEN result[key] = <<>>
                ELSE result[key] = JoinSpace(ScanExcerpts(s, sections[key][k], 1))

\* " aSecurityb.c!d?e.f.": the excerpt starts at the keyword, not at the
\* sentence's start, and stops at the fourth terminator, a sentence left over
C8_Witness ==
    /\ pc = "parsed"
    /\ ai_content.isStr
    /\ ai_content.chars # <<>>
    /\ ai_content.chars[1] = " "
    /\ Cardinality(TerminatorsFrom(ai_content.chars, 1)) > 4
    /\ result.security_analysis =
          <<"S", "e", "c", "u", "r", "i", "t", "y", "b", ".", "c", "!", "d", "?", "e", ".">>

-----------------------------------------------------------------------------
(* Properties of the report *)

\* the integer part of 0.7 * ai_score + 0.3 * code_quality
IntegerPart(ai_score, code_quality) == (7 * ai_score + 3 * code_quality) \div 10

\* C10: 0 is the "use fallback only" value of the parsed score: when the AI
\* analysis returned without error with a nonzero overall_score, the reported
\* code_quality is the integer part of 0.7 * AI score + 0.3 * fallback score;
\* when the parsed score is 0, or the AI analysis is absent or errored, it is
\* the fallback score unchanged.
C10_Blend ==
    pc = "reported" =>
        LET ai == report.ai_analysis
            fallback == call.repo.code_quality
        IN  IF ai # None /\ ~Truthy(ai, "error") /\ Get(ai, "overall_score", 0) # 0
            THEN report.code_quality = IntegerPart(ai.overall_score, fallback)
            ELSE report.code_quality = fallback

\* C12: when the AI analysis succeeded (no error) and a category's section
\* field is empty because no keyword matched, the caller substitutes a generic
\* fallback sentence: no details entry of the report is the empty string.
C12_DetailsNeverEmpty ==
    (pc = "reported" /\ report.ai_analysis # None /\ ~Truthy(report.ai_analysis, "error")) =>
        \A category \in DOMAIN report.details : report.details[category] # <<>>

-----------------------------------------------------------------------------
(* Properties of the /analyze handler *)

\* C11: once analyze_github_repo has returned, no failure of the persistence
\* steps (missing Supabase configuration, a lookup that raises or answers with
\* an error status, a repository or analysis insert that raises or is refused)
\* changes the outcome: the handler answers 200 with the analysis result as it
\* stood before persistence began, the returned report with its id.
C11_PersistenceNeverFatal ==
    \A r \in 1..MaxRequests :
        (requests[r].pc = "respond" /\ requests[r].returned # None) =>
            requests[r].response =
                HTTPResponse([id |-> requests[r].analysis_id] @@ requests[r].returned)

\* a request whose analysis succeeded is answered 200 although its analysis
\* never reached the analyses table: persistence broke off on the way
C11_Witness ==
    \E r \in 1..MaxRequests :
        /\ requests[r].pc = "respond"
        /\ requests[r].returned # None
        /\ requests[r].response.status_code = 200
        /\ \A sent \in analyses : sent.sent_by # r

\* C13: the analysis id is unique: two distinct requests never hold the same
\* id, and no two POSTs to the analyses table carry the same id.
C13_UniqueIds ==
    /\ \A r1, r2 \in 1..MaxRequests :
          (r1 # r2 /\ requests[r1].analysis_id # None /\ requests[r2].analysis_id # None) =>
              requests[r1].analysis_id # requests[r2].analysis_id
    /\ \A sent1, sent2 \in analyses :
          sent1.sent_by # sent2.sent_by => sent1.id # sent2.id

\* C14: the repositories table holds at most one row for a (userId, url) pair.
C14_OneRowPerPair ==
    \A row1, row2 \in repositories :
        (row1.userId = row2.userId /\ row1.url = row2.url) => row1 = row2

====
